---- MODULE Spec2Model ----
(***************************************************************************)
(* Thinkbuddy proxy: the token lifecycle manager (getValidToken with       *)
(* registerUser / refreshToken over a key-value store) and the streaming   *)
(* response transcoder of its two deployment targets (the Workers          *)
(* TransformStream of worker.js and the Deno ReadableStream of main.ts).   *)
(* The Workers request handler (fetch) is modelled on top of the token     *)
(* manager.                                                                *)
(*                                                                         *)
(* Text is modelled as a sequence of atoms: each atom is an indivisible    *)
(* piece of the byte stream, so a chunk boundary may fall between any two  *)
(* atoms of a line, the "data: " prefix included.                          *)
(***************************************************************************)
EXTENDS Integers, Sequences, FiniteSets, TLC

VARIABLES
    body,       \* the upstream response body, as the text it will deliver
    read,       \* how many atoms of body have been delivered in chunks
    buffer,     \* worker.js: let buffer = ""
    enqueued,   \* every controller.enqueue(...) so far, in order
    stream,     \* "readable", "closed" or "errored"
    joined,     \* history: some chunk completed a line begun in an earlier chunk
    KV,         \* the key-value store: secret -> stored text, <<>> when absent
    now,        \* Date.now(), in milliseconds
    issued,     \* how many token pairs the identity provider has issued
    task,       \* per request task: where it is in getValidToken, and its locals
    request,    \* per request task: the request fetch is handling, <<>> when none
    response    \* per request task: the Response fetch returned, <<>> when none yet

streamVars == <<body, read, buffer, enqueued, stream, joined>>
tokenVars == <<KV, now, issued, task>>
handlerVars == <<request, response>>
vars == <<body, read, buffer, enqueued, stream, joined, KV, now, issued, task,
          request, response>>

\* ------------------------------------------------------------------ bounds
MaxLines == 3       \* newline-terminated lines in one upstream body
MaxBody == 18       \* atoms in one upstream body
MaxTicks == 6       \* the clock runs from 0 to MaxTicks steps of 100 s
MaxIssued == 3      \* token pairs the identity provider issues in one run

\* ------------------------------------------------------------------- text
NL == "NL"          \* "\n"
SP == "SP"          \* one whitespace character
DATA == "data:"     \* the five characters "data:"; "data: " is <<DATA, SP>>
OPEN == "{choices:[{"
CLOSE == "}]}"

\* atoms that are one key of choices[0]
DeltaEmpty == "delta:{}"
DeltaA == "delta:{content:a}"
DeltaHi == "delta:{content:hi}"
DeltaBlank == "delta:{content:}"     \* delta.content is the empty string
TextHi == "text:hi"
TextBlank == "text:"                 \* choices[0].text is the empty string
FinishStop == "finish_reason:stop"
FinishNull == "finish_reason:null"
FieldAtoms ==
    {DeltaEmpty, DeltaA, DeltaHi, DeltaBlank, TextHi, TextBlank, FinishStop, FinishNull}
DeltaAtoms == {DeltaEmpty, DeltaA, DeltaHi, DeltaBlank}
TextAtoms == {TextHi, TextBlank}

\* atoms that are a whole JSON text on their own
EmptyObject == "{}"             \* {} : an object with no choices
QuotedDone == "\"[DONE]\""      \* the JSON string "[DONE]"
RawDone == "[DONE]"             \* the bare sentinel: no JSON text

\* "data: [DONE]\n\n"
DoneEvent == <<DATA, SP, RawDone, NL, NL>>

\* ------------------------------------------------------- string functions
RECURSIVE SplitFrom(_, _, _)
SplitFrom(s, i, cur) ==
    IF i > Len(s) THEN <<cur>>
    ELSE IF s[i] = NL THEN <<cur>> \o SplitFrom(s, i + 1, <<>>)
    ELSE SplitFrom(s, i + 1, Append(cur, s[i]))

\* String.prototype.split("\n")
split(s) == SplitFrom(s, 1, <<>>)

RECURSIVE TrimStart(_)
TrimStart(s) ==
    IF s # <<>> /\ Head(s) \in {SP, NL} THEN TrimStart(Tail(s)) ELSE s

RECURSIVE TrimEnd(_)
TrimEnd(s) ==
    IF s # <<>> /\ s[Len(s)] \in {SP, NL}
    THEN TrimEnd(SubSeq(s, 1, Len(s) - 1))
    ELSE s

\* String.prototype.trim()
trim(s) == TrimEnd(TrimStart(s))

\* line.startsWith("data: ")
startsWithData(line) == Len(line) >= 2 /\ line[1] = DATA /\ line[2] = SP

\* line.slice(6)
slice6(line) == SubSeq(line, 3, Len(line))

\* ------------------------------------------------------------------- JSON
RECURSIVE NoSpace(_)
NoSpace(s) ==
    IF s = <<>> THEN <<>>
    ELSE IF Head(s) \in {SP, NL} THEN NoSpace(Tail(s))
    ELSE <<Head(s)>> \o NoSpace(Tail(s))

Thrown == [kind |-> "SyntaxError", fields |-> <<>>]

\* JSON.parse: whitespace between tokens is insignificant; anything that is
\* not a complete JSON text throws SyntaxError.
JSONparse(text) ==
    LET t == NoSpace(text) IN
    IF t = <<QuotedDone>> THEN [kind |-> "string", fields |-> <<>>]
    ELSE IF t = <<EmptyObject>> THEN [kind |-> "object", fields |-> <<>>]
    ELSE IF /\ Len(t) >= 2
            /\ t[1] = OPEN
            /\ t[Len(t)] = CLOSE
            /\ \A i \in 2..(Len(t) - 1) : t[i] \in FieldAtoms
         THEN [kind |-> "choices", fields |-> SubSeq(t, 2, Len(t) - 1)]
    ELSE Thrown

\* JSON.stringify of an object that has choices[0], its keys in insertion order
JSONstringify(fields) == <<OPEN>> \o fields \o <<CLOSE>>

HasAtom(fields, S) == \E i \in 1..Len(fields) : fields[i] \in S

RECURSIVE Without(_, _)
Without(fields, a) ==
    IF fields = <<>> THEN <<>>
    ELSE IF Head(fields) = a THEN Without(Tail(fields), a)
    ELSE <<Head(fields)>> \o Without(Tail(fields), a)

Replace(fields, a, b) ==
    [i \in 1..Len(fields) |-> IF fields[i] = a THEN b ELSE fields[i]]

\* if (data.choices?.[0]?.delta === undefined) data.choices[0].delta = {};
EnsureDelta(fields) ==
    IF HasAtom(fields, DeltaAtoms) THEN fields ELSE Append(fields, DeltaEmpty)

\* the condition `data.choices?.[0]?.text`: the empty string is falsy
truthy(text) == text # TextBlank

\* delta with content = the value of the text field
ContentOf(text) == IF text = TextHi THEN DeltaHi ELSE DeltaBlank

\* if (delta.content === undefined && choices[0].text) { move text into delta.content }
MoveText(fields) ==
    IF /\ HasAtom(fields, {DeltaEmpty})
       /\ \E i \in 1..Len(fields) : fields[i] \in TextAtoms /\ truthy(fields[i])
    THEN LET text == fields[CHOOSE i \in 1..Len(fields) :
                                fields[i] \in TextAtoms /\ truthy(fields[i])]
         IN  Without(Replace(fields, DeltaEmpty, ContentOf(text)), text)
    ELSE fields

Normalize(fields) == MoveText(EnsureDelta(fields))

\* `data: ${JSON.stringify(data)}\n\n`
EventOf(fields) == <<DATA, SP>> \o JSONstringify(fields) \o <<NL, NL>>

\* ------------------------------------------------ one line of the for loop
Continue(events) == [ctl |-> "continue", events |-> events]
Return(events) == [ctl |-> "return", events |-> events]
Throw == [ctl |-> "throw", events |-> <<>>]

\* The body of `for (const line of lines)`, the same text in both targets:
\* what it enqueues and how it leaves (continue, return, or a thrown error).
processLine(line) ==
    IF trim(line) = <<>> THEN Continue(<<>>)
    ELSE IF ~startsWithData(line) THEN Continue(<<>>)
    ELSE LET data == JSONparse(slice6(line)) IN
         IF data.kind = "SyntaxError" THEN Throw
         ELSE IF data.kind = "string" THEN Return(<<DoneEvent>>)
         ELSE IF data.kind = "object" THEN Throw   \* data.choices[0] of undefined
         ELSE LET fields == Normalize(data.fields) IN
              IF HasAtom(fields, {FinishStop})
              THEN Return(<<EventOf(fields), DoneEvent>>)
              ELSE Continue(<<EventOf(fields)>>)

\* ------------------------------------------------ Workers: TransformStream
\* mutant of the catch: the error leaves the loop instead of the line
caughtLeaves(r) == Return(<<>>)

\* try { ... } catch (error) { console.error(...); continue; }
caught(r) == Continue(<<>>)

\* for (const line of lines) { try { ... } catch ... }: what has been enqueued
\* when the loop is left, and how it is left
RECURSIVE transformLoop(_, _)
transformLoop(lines, out) ==
    IF lines = <<>> THEN [enqueued |-> out, ctl |-> "continue"]
    ELSE LET r == processLine(Head(lines))
             s == IF r.ctl = "throw" THEN caught(r) ELSE r
         IN  IF s.ctl = "continue"
             THEN transformLoop(Tail(lines), out \o s.events)
             ELSE [enqueued |-> out \o s.events, ctl |-> s.ctl]

\* mutant of the carry-over: the text after the last newline is dropped
carryDropped(lines) == <<>>

\* buffer = lines.pop() || "": the text after the last newline is kept
carry(lines) == lines[Len(lines)]

\* mutant: the last, unterminated line is not popped and is processed too
completeUnpopped(lines) == lines

\* lines, once lines.pop() has taken the last one
complete(lines) == SubSeq(lines, 1, Len(lines) - 1)

\* async transform(chunk, controller): an error that leaves it errors the stream
transform(k) ==
    /\ stream = "readable"
    /\ read + k <= Len(body)
    /\ LET chunk == SubSeq(body, read + 1, read + k)
           lines == split(buffer \o chunk)
           r == transformLoop(complete(lines), enqueued)
       IN  /\ buffer' = carry(lines)
           /\ enqueued' = r.enqueued
           /\ stream' = IF r.ctl = "throw" THEN "errored" ELSE stream
           /\ joined' = (joined \/ (buffer # <<>> /\ Len(lines) > 1))
    /\ read' = read + k
    /\ UNCHANGED <<body, tokenVars, handlerVars>>

\* mutant of flush: the remaining `data: ` line is enqueued without parsing it
flushLineUnparsed(buf) ==
    IF trim(buf) # <<>> /\ startsWithData(trim(buf))
    THEN <<trim(buf) \o <<NL, NL>>>>
    ELSE <<>>

\* what flush enqueues for the remaining buffer
flushLine(buf) ==
    IF trim(buf) = <<>> THEN <<>>
    ELSE LET line == trim(buf) IN
         IF ~startsWithData(line) THEN <<>>
         ELSE LET data == JSONparse(slice6(line)) IN
              IF data.kind = "SyntaxError" THEN <<>>
              ELSE IF data.kind # "string" THEN <<line \o <<NL, NL>>>>
              ELSE <<>>

\* async flush(controller): runs when the upstream body has ended
flush ==
    /\ stream = "readable"
    /\ read = Len(body)
    /\ enqueued' = enqueued \o flushLine(buffer) \o <<DoneEvent>>
    /\ stream' = "closed"
    /\ UNCHANGED <<body, read, buffer, joined, tokenVars, handlerVars>>

\* ---------------------------------------------------- Deno: ReadableStream
RECURSIVE startLoop(_, _)
startLoop(lines, out) ==
    IF lines = <<>> THEN [enqueued |-> out, stream |-> "readable"]
    ELSE LET r == processLine(Head(lines)) IN
         IF r.ctl = "throw" THEN [enqueued |-> out, stream |-> "errored"]
         ELSE IF r.ctl = "return"
              THEN [enqueued |-> out \o r.events, stream |-> "closed"]
              ELSE startLoop(Tail(lines), out \o r.events)

\* one turn of while (true): reader.read() gave a chunk
startChunk(k) ==
    /\ stream = "readable"
    /\ read + k <= Len(body)
    /\ LET chunk == SubSeq(body, read + 1, read + k)
           r == startLoop(split(chunk), enqueued)
       IN  /\ enqueued' = r.enqueued
           /\ stream' = r.stream
    /\ read' = read + k
    /\ UNCHANGED <<body, buffer, joined, tokenVars, handlerVars>>

\* one turn of while (true): reader.read() gave done
startDone ==
    /\ stream = "readable"
    /\ read = Len(body)
    /\ enqueued' = Append(enqueued, DoneEvent)
    /\ stream' = "closed"
    /\ UNCHANGED <<body, read, buffer, joined, tokenVars, handlerVars>>

\* ================================================== token lifecycle manager
Secrets == {"key1", "key2"}         \* client secrets (apiKey)
Tasks == {"t1", "t2"}               \* request tasks
ExpiresIn == {100, 300, 400, 600}   \* expiresIn / expires_in, in seconds
StatusText == {"Unauthorized"}      \* response.statusText of a failed call

RefreshFailed == "Failed to refresh token: "
RegisterFailed == "Failed to register user: "
OtherError == "Unexpected end of JSON input"
StoreError == "KV PUT failed"

\* error.message.includes("Failed to refresh token")
includesRefreshFailed(message) ==
    \E i \in 1..Len(message) : message[i] = RefreshFailed

\* the record both calls return, `n` naming the pair the provider issued
TokenInfo(n, expiresIn) ==
    [token |-> <<"id_token", n>>,
     refreshToken |-> <<"refresh_token", n>>,
     expiresAt |-> now + expiresIn * 1000]

\* mutant of the stored form: the expiry is not written
stringifyNoExpiry(info) == <<info.token, info.refreshToken, 0>>

\* JSON.stringify(newTokenInfo), as stored
stringify(info) == <<info.token, info.refreshToken, info.expiresAt>>

\* KV.get(apiKey, "json"): null (here <<>>) when the key is absent
getJson(text) ==
    IF text = <<>> THEN <<>>
    ELSE <<[token |-> text[1], refreshToken |-> text[2], expiresAt |-> text[3]]>>

\* mutants of the renewal test: `>` for `>=`, and the comparison turned round
expiringStrict(info, t) == t > info.expiresAt - 300000
expiringFlipped(info, t) == t <= info.expiresAt - 300000

\* Date.now() >= tokenInfo.expiresAt - 300000
expiring(info, t) == t >= info.expiresAt - 300000

\* mutant of the catch clause: every error leads to registerUser
fallsBackAlways(message) == TRUE

\* the catch clause: does this error lead to registerUser?
fallsBack(message) == includesRefreshFailed(message)

Entry(op, arg) == [op |-> op, arg |-> arg]
Idle == [pc |-> "idle", apiKey |-> "key1", tokenInfo |-> <<>>, at |-> 0,
         newTokenInfo |-> <<>>, result |-> <<>>, error |-> <<>>, log |-> <<>>,
         last |-> <<>>]

Ended(t) == task[t].pc \in {"returned", "failed"}

\* what the call that has just ended leaves to compare the next one with: the
\* secret and the record, when it returned the token of a registration
Registered(rec) ==
    IF /\ rec.pc = "returned"
       /\ \E i \in 1..Len(rec.log) : rec.log[i].op = "registerUser.ok"
    THEN <<[apiKey |-> rec.apiKey, tokenInfo |-> rec.newTokenInfo[1]]>>
    ELSE <<>>

\* the call getValidToken(KV, apiKey) begins
enter(t, apiKey) ==
    /\ task[t].pc = "idle" \/ Ended(t)
    /\ task' = [task EXCEPT ![t] = [Idle EXCEPT !.pc = "get", !.apiKey = apiKey,
                                                !.last = Registered(task[t])]]

\* a request task enters getValidToken(KV, apiKey)
getValidToken(t, apiKey) ==
    /\ enter(t, apiKey)
    /\ UNCHANGED <<KV, now, issued, streamVars, handlerVars>>

\* const tokenInfo = await KV.get(apiKey, "json")
get(t) ==
    /\ task[t].pc = "get"
    /\ task' = [task EXCEPT ![t].pc = "try",
                            ![t].tokenInfo = getJson(KV[task[t].apiKey]),
                            ![t].log = Append(@, Entry("get", <<>>))]
    /\ UNCHANGED <<KV, now, issued, streamVars, handlerVars>>

\* the condition of line 96 and the call it leads to, or the cached token
try(t) ==
    /\ task[t].pc = "try"
    /\ LET info == task[t].tokenInfo IN
       task' = [task EXCEPT ![t] =
           IF info = <<>>
           THEN [@ EXCEPT !.pc = "registerUser", !.at = now,
                          !.log = Append(@, Entry("registerUser", <<>>))]
           ELSE IF expiring(info[1], now)
           THEN [@ EXCEPT !.pc = "refreshToken", !.at = now,
                          !.log = Append(@, Entry("refreshToken", info[1].refreshToken))]
           ELSE [@ EXCEPT !.pc = "returned", !.at = now,
                          !.result = <<info[1].token>>]]
    /\ UNCHANGED <<KV, now, issued, streamVars, handlerVars>>

\* mutant of the catch clause: an error that is not retried is thrown anew
catchWraps(rec, message) ==
    IF fallsBack(message)
    THEN [rec EXCEPT !.pc = "fallback",
                     !.log = Append(@, Entry("registerUser", <<>>))]
    ELSE [rec EXCEPT !.pc = "failed", !.error = <<"Token management failed">>]

\* a thrown error reaches the catch clause of getValidToken
catch(rec, message) ==
    IF fallsBack(message)
    THEN [rec EXCEPT !.pc = "fallback",
                     !.log = Append(@, Entry("registerUser", <<>>))]
    ELSE [rec EXCEPT !.pc = "failed", !.error = message]

\* refreshToken(apiKey, tokenInfo.refreshToken) answers with a new pair
refreshTokenOk(t, expiresIn) ==
    /\ task[t].pc = "refreshToken"
    /\ issued < MaxIssued
    /\ issued' = issued + 1
    /\ LET info == TokenInfo(issued + 1, expiresIn) IN
       task' = [task EXCEPT ![t].pc = "put",
                            ![t].newTokenInfo = <<info>>,
                            ![t].log = Append(@, Entry("refreshToken.ok", stringify(info)))]
    /\ UNCHANGED <<KV, now, streamVars, handlerVars>>

\* refreshToken: !response.ok, it throws "Failed to refresh token: ..."
refreshTokenNotOk(t, statusText) ==
    /\ task[t].pc = "refreshToken"
    /\ task' = [task EXCEPT ![t] =
           catch([@ EXCEPT !.log = Append(@, Entry("refreshToken.failed",
                                                   <<RefreshFailed, statusText>>))],
                 <<RefreshFailed, statusText>>)]
    /\ UNCHANGED <<KV, now, issued, streamVars, handlerVars>>

\* refreshToken: fetch or response.json() throws some other error
refreshTokenThrows(t) ==
    /\ task[t].pc = "refreshToken"
    /\ task' = [task EXCEPT ![t] =
           catch([@ EXCEPT !.log = Append(@, Entry("refreshToken.threw", <<OtherError>>))],
                 <<OtherError>>)]
    /\ UNCHANGED <<KV, now, issued, streamVars, handlerVars>>

\* registerUser(apiKey) of line 99 answers with a new pair
registerUserOk(t, expiresIn) ==
    /\ task[t].pc = "registerUser"
    /\ issued < MaxIssued
    /\ issued' = issued + 1
    /\ LET info == TokenInfo(issued + 1, expiresIn) IN
       task' = [task EXCEPT ![t].pc = "put",
                            ![t].newTokenInfo = <<info>>,
                            ![t].log = Append(@, Entry("registerUser.ok", stringify(info)))]
    /\ UNCHANGED <<KV, now, streamVars, handlerVars>>

\* registerUser of line 99 throws: !response.ok, or another error
registerUserThrows(t, message) ==
    /\ task[t].pc = "registerUser"
    /\ task' = [task EXCEPT ![t] =
           catch([@ EXCEPT !.log = Append(@, Entry("registerUser.failed", message))],
                 message)]
    /\ UNCHANGED <<KV, now, issued, streamVars, handlerVars>>

\* mutant of the write: a record that changed since it was read is kept, and
\* its token returned
putIfUnchanged(t) ==
    /\ task[t].pc = "put"
    /\ LET mine == stringify(task[t].newTokenInfo[1])
           same == getJson(KV[task[t].apiKey]) = task[t].tokenInfo
       IN  /\ KV' = IF same THEN [KV EXCEPT ![task[t].apiKey] = mine] ELSE KV
           /\ task' = [task EXCEPT ![t].pc = "returned",
                                   ![t].result = <<KV'[task[t].apiKey][1]>>,
                                   ![t].log = Append(@, Entry("put", mine))]
    /\ UNCHANGED <<now, issued, streamVars, handlerVars>>

\* mutant of the write: only the token and the expiry of a record that exists
\* are replaced
putMerged(t) ==
    /\ task[t].pc = "put"
    /\ LET new == task[t].newTokenInfo[1]
           old == KV[task[t].apiKey]
       IN  /\ KV' = [KV EXCEPT ![task[t].apiKey] =
                        IF old = <<>> THEN stringify(new)
                        ELSE <<new.token, old[2], new.expiresAt>>]
           /\ task' = [task EXCEPT ![t].pc = "returned",
                                   ![t].result = <<new.token>>,
                                   ![t].log = Append(@, Entry("put", stringify(new)))]
    /\ UNCHANGED <<now, issued, streamVars, handlerVars>>

\* mutant of the write: the token is returned and the store left as it was
putSkipped(t) ==
    /\ task[t].pc = "put"
    /\ task' = [task EXCEPT ![t].pc = "returned",
                            ![t].result = <<task[t].newTokenInfo[1].token>>]
    /\ UNCHANGED <<KV, now, issued, streamVars, handlerVars>>

\* await KV.put(apiKey, JSON.stringify(newTokenInfo)); return newTokenInfo.token
put(t) ==
    /\ task[t].pc = "put"
    /\ KV' = [KV EXCEPT ![task[t].apiKey] = stringify(task[t].newTokenInfo[1])]
    /\ task' = [task EXCEPT ![t].pc = "returned",
                            ![t].result = <<task[t].newTokenInfo[1].token>>,
                            ![t].log = Append(@, Entry("put", stringify(task[t].newTokenInfo[1])))]
    /\ UNCHANGED <<now, issued, streamVars, handlerVars>>

\* registerUser(apiKey) of the catch clause answers with a new pair
fallbackOk(t, expiresIn) ==
    /\ task[t].pc = "fallback"
    /\ issued < MaxIssued
    /\ issued' = issued + 1
    /\ LET info == TokenInfo(issued + 1, expiresIn) IN
       task' = [task EXCEPT ![t].pc = "fallbackPut",
                            ![t].newTokenInfo = <<info>>,
                            ![t].log = Append(@, Entry("registerUser.ok", stringify(info)))]
    /\ UNCHANGED <<KV, now, streamVars, handlerVars>>

\* mutant of the failed fallback: the record that could not be renewed is
\* cleared from the store
fallbackThrowsClears(t, message) ==
    /\ task[t].pc = "fallback"
    /\ KV' = [KV EXCEPT ![task[t].apiKey] = <<>>]
    /\ task' = [task EXCEPT ![t].pc = "failed",
                            ![t].error = message,
                            ![t].log = Append(@, Entry("registerUser.failed", message))]
    /\ UNCHANGED <<now, issued, streamVars, handlerVars>>

\* registerUser of the catch clause throws: nothing catches it
fallbackThrows(t, message) ==
    /\ task[t].pc = "fallback"
    /\ task' = [task EXCEPT ![t].pc = "failed",
                            ![t].error = message,
                            ![t].log = Append(@, Entry("registerUser.failed", message))]
    /\ UNCHANGED <<KV, now, issued, streamVars, handlerVars>>

\* the catch clause: await KV.put(...); return newTokenInfo.token
fallbackPut(t) ==
    /\ task[t].pc = "fallbackPut"
    /\ KV' = [KV EXCEPT ![task[t].apiKey] = stringify(task[t].newTokenInfo[1])]
    /\ task' = [task EXCEPT ![t].pc = "returned",
                            ![t].result = <<task[t].newTokenInfo[1].token>>,
                            ![t].log = Append(@, Entry("put", stringify(task[t].newTokenInfo[1])))]
    /\ UNCHANGED <<now, issued, streamVars, handlerVars>>

\* await KV.get(apiKey, "json") rejects: it stands before the try
getThrows(t) ==
    /\ task[t].pc = "get"
    /\ task' = [task EXCEPT ![t].pc = "failed",
                            ![t].error = <<StoreError>>,
                            ![t].log = Append(@, Entry("get.failed", <<StoreError>>))]
    /\ UNCHANGED <<KV, now, issued, streamVars, handlerVars>>

\* await KV.put(...) of line 101 rejects: the store keeps what it held
putThrows(t) ==
    /\ task[t].pc = "put"
    /\ task' = [task EXCEPT ![t] =
           catch([@ EXCEPT !.log = Append(@, Entry("put.failed", <<StoreError>>))],
                 <<StoreError>>)]
    /\ UNCHANGED <<KV, now, issued, streamVars, handlerVars>>

\* await KV.put(...) of the catch clause rejects: nothing catches it
fallbackPutThrows(t) ==
    /\ task[t].pc = "fallbackPut"
    /\ task' = [task EXCEPT ![t].pc = "failed",
                            ![t].error = <<StoreError>>,
                            ![t].log = Append(@, Entry("put.failed", <<StoreError>>))]
    /\ UNCHANGED <<KV, now, issued, streamVars, handlerVars>>

\* time passes
Tick ==
    /\ now < MaxTicks * 100000
    /\ now' = now + 100000
    /\ UNCHANGED <<KV, issued, task, streamVars, handlerVars>>

RegisterErrors == {<<RegisterFailed, st>> : st \in StatusText} \cup {<<OtherError>>}

\* the steps of a call that is under way
run(t) ==
    \/ get(t)
    \/ try(t)
    \/ \E e \in ExpiresIn : refreshTokenOk(t, e)
    \/ \E st \in StatusText : refreshTokenNotOk(t, st)
    \/ refreshTokenThrows(t)
    \/ \E e \in ExpiresIn : registerUserOk(t, e)
    \/ \E m \in RegisterErrors : registerUserThrows(t, m)
    \/ put(t)
    \/ \E e \in ExpiresIn : fallbackOk(t, e)
    \/ \E m \in RegisterErrors : fallbackThrows(t, m)
    \/ fallbackPut(t)

step(t) ==
    \/ \E apiKey \in Secrets : getValidToken(t, apiKey)
    \/ run(t)

InitToken ==
    /\ KV = [k \in Secrets |-> <<>>]
    /\ now = 0
    /\ issued = 0
    /\ task = [t \in Tasks |-> Idle]
    /\ request = [t \in Tasks |-> <<>>]
    /\ response = [t \in Tasks |-> <<>>]

NoStream ==
    /\ body = <<>>
    /\ read = 0
    /\ buffer = <<>>
    /\ enqueued = <<>>
    /\ stream = "readable"
    /\ joined = FALSE

\* one request at a time
NextToken == step("t1") \/ Tick

InitTokenOnly == InitToken /\ NoStream

SpecToken == InitTokenOnly /\ [][NextToken]_vars

\* the store as an earlier request may have left it: no record, or the record
\* of the first pair the provider issued, for one secret
InitRaceToken ==
    /\ now = 0
    /\ KV \in {[k \in Secrets |-> <<>>]}
              \cup {[k \in Secrets |->
                        IF k = "key1" THEN stringify(TokenInfo(1, e)) ELSE <<>>] :
                    e \in ExpiresIn}
    /\ issued = IF KV["key1"] = <<>> THEN 0 ELSE 1
    /\ task = [t \in Tasks |-> Idle]
    /\ request = [t \in Tasks |-> <<>>]
    /\ response = [t \in Tasks |-> <<>>]

InitRace == InitRaceToken /\ NoStream

\* a request arrives for a task that has not run yet
start(t) ==
    /\ task[t].pc = "idle"
    /\ \E apiKey \in Secrets : getValidToken(t, apiKey)

\* two requests that arrive within one reading of the clock, one call each:
\* their awaits interleave freely
NextRace == \E t \in Tasks : start(t) \/ run(t)

SpecRace == InitRace /\ [][NextRace]_vars

\* ------------------------------------------------- Workers: fetch handler
Bearer == "Bearer "
\* request.headers.get("authorization"): null (here <<>>), another scheme, or
\* "Bearer " followed by the secret
Headers == {<<>>, <<"Basic ", "key1">>} \cup {<<Bearer, k>> : k \in Secrets}

\* url.pathname, segment by segment
Pathnames ==
    {<<"/api", "/v1", "/models">>, <<"/api", "/models">>,
     <<"/api", "/v1", "/chat/completions">>, <<"/api", "/chat/completions">>,
     <<"/api", "/v1", "/embeddings">>, <<"/models">>}

\* authHeader?.startsWith("Bearer ")
startsWithBearer(authHeader) == authHeader # <<>> /\ authHeader[1] = Bearer

\* authHeader.slice(7)
slice7(authHeader) == authHeader[2]

\* url.pathname.replace(/^\/api\/v1/, "/api")
replaceV1(pathname) ==
    IF Len(pathname) >= 2 /\ pathname[1] = "/api" /\ pathname[2] = "/v1"
    THEN <<"/api">> \o SubSeq(pathname, 3, Len(pathname))
    ELSE pathname

ErrorBody(status, type, code, message) ==
    <<[status |-> status, type |-> type, code |-> code, message |-> message]>>
Ok == <<[status |-> 200, type |-> "", code |-> "", message |-> <<>>]>>
\* the catch of fetch: any error becomes a 500
InternalError(message) == ErrorBody(500, "api_error", "internal_error", message)

\* a request is being handled and has no response yet
Pending(t) == request[t] # <<>> /\ response[t] = <<>>

\* fetch(request, env), up to its first await: the 401, or getValidToken begins
fetch(t, authHeader, pathname) ==
    /\ ~Pending(t)
    /\ request' = [request EXCEPT ![t] =
           <<[authorization |-> authHeader, path |-> replaceV1(pathname)]>>]
    /\ IF ~startsWithBearer(authHeader)
       THEN /\ response' = [response EXCEPT ![t] =
                   ErrorBody(401, "invalid_request_error", "invalid_api_key",
                             <<"Missing or invalid authorization header">>)]
            /\ UNCHANGED task
       ELSE /\ response' = [response EXCEPT ![t] = <<>>]
            /\ enter(t, slice7(authHeader))
    /\ UNCHANGED <<KV, now, issued, streamVars>>

\* getValidToken threw: the catch of fetch answers
getValidTokenThrew(t) ==
    /\ Pending(t)
    /\ task[t].pc = "failed"
    /\ response' = [response EXCEPT ![t] = InternalError(task[t].error)]
    /\ UNCHANGED <<request, tokenVars, streamVars>>

\* path === "/api/models" or "/api/chat/completions": the handler answers, or
\* throws "Failed to ..." into the catch of fetch
handle(t, ok) ==
    /\ Pending(t)
    /\ task[t].pc = "returned"
    /\ request[t][1].path \in {<<"/api", "/models">>, <<"/api", "/chat/completions">>}
    /\ response' = [response EXCEPT ![t] =
           IF ok THEN Ok ELSE InternalError(<<"Failed to ", "Unauthorized">>)]
    /\ UNCHANGED <<request, tokenVars, streamVars>>

\* no route matched
routeNotFound(t) ==
    /\ Pending(t)
    /\ task[t].pc = "returned"
    /\ request[t][1].path \notin {<<"/api", "/models">>, <<"/api", "/chat/completions">>}
    /\ response' = [response EXCEPT ![t] =
           ErrorBody(404, "invalid_request_error", "route_not_found",
                     <<"Invalid API route">>)]
    /\ UNCHANGED <<request, tokenVars, streamVars>>

\* one request at a time through fetch, all within one reading of the clock
\* (a record of a short lifetime is expiring as soon as it is stored)
NextFetch ==
    \/ \E h \in Headers, p \in Pathnames : fetch("t1", h, p)
    \/ run("t1")
    \/ getValidTokenThrew("t1")
    \/ \E ok \in BOOLEAN : handle("t1", ok)
    \/ routeNotFound("t1")

SpecFetch == InitTokenOnly /\ [][NextFetch]_vars

\* one request at a time, with a store whose calls may reject
faults(t) == getThrows(t) \/ putThrows(t) \/ fallbackPutThrows(t)

NextTokenFaulty == step("t1") \/ faults("t1") \/ Tick

SpecTokenFaulty == InitTokenOnly /\ [][NextTokenFaulty]_vars

\* ------------------------------------------------------- upstream bodies
Valid1 == <<DATA, SP, OPEN, DeltaA, CLOSE>>
Valid2 == <<DATA, SP, OPEN, TextHi, CLOSE>>
Finish == <<DATA, SP, OPEN, DeltaEmpty, FinishStop, CLOSE>>
Corrupt == <<DATA, SP, OPEN, TextHi>>
Blank == <<>>
Comment == <<":keep-alive">>
Sentinel == <<DATA, SP, RawDone>>
QuotedSentinel == <<DATA, SP, QuotedDone>>
NoChoices == <<DATA, SP, EmptyObject>>

LineLib == {Valid1, Valid2, Finish, Corrupt, Blank, Comment, Sentinel,
            QuotedSentinel}
\* what follows the last newline: nothing, a line cut short, a whole line
TailLib == {<<>>, <<DATA, SP, OPEN>>, <<SP>> \o Valid2, NoChoices}

RECURSIVE Join(_)
Join(ls) == IF ls = <<>> THEN <<>> ELSE Head(ls) \o <<NL>> \o Join(Tail(ls))

Bodies ==
    {b \in {Join(ls) \o t :
                ls \in UNION {[1..n -> LineLib] : n \in 0..MaxLines},
                t \in TailLib} : Len(b) <= MaxBody}

InitStream ==
    /\ InitToken
    /\ body \in Bodies
    /\ read = 0
    /\ buffer = <<>>
    /\ enqueued = <<>>
    /\ stream = "readable"
    /\ joined = FALSE

NextWorkers ==
    \/ \E k \in 1..Len(body) : transform(k)
    \/ flush

NextDeno ==
    \/ \E k \in 1..Len(body) : startChunk(k)
    \/ startDone

\* one complete event line whose choices[0] holds any of the keys delta, text
\* and finish_reason, each at most once, in any order
KeyOf(a) ==
    IF a \in DeltaAtoms THEN "delta" ELSE IF a \in TextAtoms THEN "text" ELSE "finish_reason"

Payloads ==
    {f \in UNION {[1..n -> FieldAtoms] : n \in 0..Cardinality({KeyOf(a) : a \in FieldAtoms})} :
        \A i, j \in 1..Len(f) : KeyOf(f[i]) = KeyOf(f[j]) => i = j}

InitNormalize ==
    /\ InitToken
    /\ body \in {<<DATA, SP, OPEN>> \o f \o <<CLOSE, NL>> : f \in Payloads}
    /\ read = 0
    /\ buffer = <<>>
    /\ enqueued = <<>>
    /\ stream = "readable"
    /\ joined = FALSE

SpecWorkers == InitStream /\ [][NextWorkers]_vars
SpecNormalize == InitNormalize /\ [][NextWorkers]_vars
SpecDeno == InitStream /\ [][NextDeno]_vars

\* ======================================================== token properties
RECURSIVE CountOp(_, _)
CountOp(log, op) ==
    IF log = <<>> THEN 0
    ELSE (IF Head(log).op = op THEN 1 ELSE 0) + CountOp(Tail(log), op)

HasOp(log, op) == \E i \in 1..Len(log) : log[i].op = op
ArgOf(log, op) == log[CHOOSE i \in 1..Len(log) : log[i].op = op].arg

\* the invocation is over and had read a record with expiresAt - now <= 300000
EndedExpiring(t) ==
    /\ Ended(t)
    /\ task[t].tokenInfo # <<>>
    /\ task[t].tokenInfo[1].expiresAt - task[t].at <= 300000

\* the invocation is over and had read a record with expiresAt - now > 300000
EndedFresh(t) ==
    /\ Ended(t)
    /\ task[t].tokenInfo # <<>>
    /\ task[t].tokenInfo[1].expiresAt - task[t].at > 300000

\* the invocation is over and had found no record
EndedAbsent(t) == Ended(t) /\ task[t].tokenInfo = <<>>

\* exactly one refresh call, carrying the cached record's refreshToken; when it
\* succeeds no registration call, and the refreshed record is the stored one
OneRefresh(t) ==
    LET log == task[t].log IN
    /\ CountOp(log, "refreshToken") = 1
    /\ ArgOf(log, "refreshToken") = task[t].tokenInfo[1].refreshToken
    /\ HasOp(log, "refreshToken.ok") =>
           /\ CountOp(log, "registerUser") = 0
           /\ task[t].pc = "returned"
           /\ KV[task[t].apiKey] = ArgOf(log, "refreshToken.ok")

\* the registration's output is what the store holds and its token is returned
RegistrationStored(t) ==
    LET log == task[t].log IN
    /\ HasOp(log, "registerUser.ok")
    /\ task[t].pc = "returned"
    /\ KV[task[t].apiKey] = ArgOf(log, "registerUser.ok")
    /\ task[t].result = <<ArgOf(log, "registerUser.ok")[1]>>

C4_FreshRecordReturned ==
    \A t \in Tasks : EndedFresh(t) =>
        /\ task[t].log = <<Entry("get", <<>>)>>
        /\ KV[task[t].apiKey] = stringify(task[t].tokenInfo[1])
        /\ task[t].pc = "returned"
        /\ task[t].result = <<task[t].tokenInfo[1].token>>

\* C4 witness: a cached record with more than the margin left was returned.
C4_Witness ==
    /\ EndedFresh("t1")
    /\ task["t1"].pc = "returned"

RECURSIVE Count(_, _)
Count(events, e) ==
    IF events = <<>> THEN 0
    ELSE (IF Head(events) = e THEN 1 ELSE 0) + Count(Tail(events), e)

\* a `data: ` line whose payload is JSON with a choices[0] entry
IsEventLine(l) == startsWithData(l) /\ JSONparse(slice6(l)).kind = "choices"
\* ... the ones that carry a truthy finish_reason
IsFinishLine(l) == IsEventLine(l) /\ HasAtom(JSONparse(slice6(l)).fields, {FinishStop})
IsValidLine(l) == IsEventLine(l) /\ ~IsFinishLine(l)
IsIgnoredLine(l) == trim(l) = <<>> \/ ~startsWithData(l)
IsCorruptLine(l) == startsWithData(l) /\ JSONparse(slice6(l)).kind = "SyntaxError"

NormalizedEvent(l) == EventOf(Normalize(JSONparse(slice6(l)).fields))

\* the normalized events of the valid lines among `lines`, in input order
RECURSIVE ValidEvents(_)
ValidEvents(lines) ==
    IF lines = <<>> THEN <<>>
    ELSE (IF IsValidLine(Head(lines)) THEN <<NormalizedEvent(Head(lines))>> ELSE <<>>)
         \o ValidEvents(Tail(lines))

\* the newline-terminated lines of a text, and what follows its last newline
LinesOf(text) == SubSeq(split(text), 1, Len(split(text)) - 1)
RestOf(text) == split(text)[Len(split(text))]

\* every newline-terminated line is a valid event line, a blank line or a
\* line without the `data: ` prefix
OnlyValidLines(text) ==
    \A i \in 1..Len(LinesOf(text)) :
        IsValidLine(LinesOf(text)[i]) \/ IsIgnoredLine(LinesOf(text)[i])

IsFinishEvent(e) == \E i \in 1..Len(e) : e[i] = FinishStop

\* C1 (as claimed): when the transcoder has ended its output, the output holds
\* exactly one `data: [DONE]` event and that event is the last one, also when a
\* finish_reason line or a sentinel line already enqueued a [DONE] before
\* end-of-input.
C1_ExactlyOneDoneAtEnd ==
    stream = "closed" =>
        /\ Count(enqueued, DoneEvent) = 1
        /\ enqueued[Len(enqueued)] = DoneEvent

\* C5 (as claimed): a processed finish_reason line enqueues its normalized event
\* immediately followed by [DONE], and from then on nothing more is enqueued,
\* whatever input follows (same chunk, later chunk, buffered partial line).
C5_FinishEndsOutput ==
    [][\A i \in 1..Len(enqueued) :
          IsFinishEvent(enqueued[i]) =>
              /\ i < Len(enqueued)
              /\ enqueued[i + 1] = DoneEvent
              /\ enqueued' = enqueued]_vars

\* C7: for a body of newline-terminated lines, each a valid event line, a blank
\* line or a line without the `data: ` prefix, delivered under any split into
\* chunks and then closed, the output is exactly the normalized events of the
\* valid lines in input order followed by one [DONE].
C7_ValidLinesThenDone ==
    (stream = "closed" /\ OnlyValidLines(body) /\ RestOf(body) = <<>>) =>
        enqueued = ValidEvents(LinesOf(body)) \o <<DoneEvent>>

\* C7 witness: a closed stream of three lines, two of them valid event lines and
\* one ignored, that were delivered in more than one chunk with a line cut.
C7_Witness ==
    /\ stream = "closed"
    /\ OnlyValidLines(body) /\ RestOf(body) = <<>>
    /\ Len(LinesOf(body)) = 3
    /\ Len(ValidEvents(LinesOf(body))) = 2
    /\ joined

\* C8: while lines arrive, whatever the chunk boundaries, exactly the lines whose
\* newline has arrived have been processed (one event per valid line, none
\* twice, none missing) and the text after the last newline waits in the buffer,
\* unparsed.
C8_SplitLineProcessedOnce ==
    (stream = "readable" /\ OnlyValidLines(body)) =>
        /\ enqueued = ValidEvents(LinesOf(SubSeq(body, 1, read)))
        /\ buffer = RestOf(SubSeq(body, 1, read))

\* C8 witness: every line so far was a valid event line, one of them arrived in
\* two chunks, and its event is out; the next line is waiting half-delivered.
C8_Witness ==
    /\ stream = "readable"
    /\ OnlyValidLines(body)
    /\ joined
    /\ \A i \in 1..Len(LinesOf(body)) : IsValidLine(LinesOf(body)[i])
    /\ Len(enqueued) = 1
    /\ buffer # <<>>

\* a body of exactly three lines: valid, corrupt JSON, valid
ValidCorruptValid(text) ==
    /\ Len(LinesOf(text)) = 3
    /\ RestOf(text) = <<>>
    /\ IsValidLine(LinesOf(text)[1])
    /\ IsCorruptLine(LinesOf(text)[2])
    /\ IsValidLine(LinesOf(text)[3])

\* C9: with one corrupt JSON `data:` line between two valid lines the stream
\* never errors, and once closed its output is the two normalized events and one
\* terminal [DONE]: the corrupt line adds nothing and stops nothing.
C9_CorruptLineSkipped ==
    ValidCorruptValid(body) =>
        /\ stream # "errored"
        /\ stream = "closed" =>
               enqueued = <<NormalizedEvent(LinesOf(body)[1]),
                            NormalizedEvent(LinesOf(body)[3]), DoneEvent>>

\* C9 witness: such a body, fully delivered and closed.
C9_Witness ==
    /\ ValidCorruptValid(body)
    /\ stream = "closed"
    /\ Len(enqueued) = 3

\* C10 (as claimed): in the Deno transcoder a malformed `data:` payload never
\* aborts the stream, and the stream ends with exactly one [DONE].
C10_DenoNeverAborts ==
    /\ stream # "errored"
    /\ stream = "closed" => Count(enqueued, DoneEvent) = 1

\* the first line of `lines` that is the upstream sentinel line `data: [DONE]`
\* with nothing but valid or ignored lines before it (0 when there is none)
FirstSentinel(lines) ==
    LET hits == {i \in 1..Len(lines) :
                    /\ lines[i] = Sentinel
                    /\ \A j \in 1..(i - 1) :
                          IsValidLine(lines[j]) \/ IsIgnoredLine(lines[j])}
    IN IF hits = {} THEN 0 ELSE CHOOSE i \in hits : \A j \in hits : i <= j

\* C11 (as claimed): once a complete upstream line `data: [DONE]` has been
\* processed by the Workers transcoder, the output is the events of the lines
\* before it followed by one terminal [DONE] emitted at that point, and nothing
\* is emitted for any input after it (same chunk, later chunks, end of input).
C11_SentinelEndsOutput ==
    LET lines == LinesOf(SubSeq(body, 1, read))
        i == FirstSentinel(lines)
    IN i > 0 =>
           enqueued = ValidEvents(SubSeq(lines, 1, i - 1)) \o <<DoneEvent>>

\* the fields of choices[0] in the one line of the body, and in its event
PayloadIn == JSONparse(slice6(LinesOf(body)[1])).fields
PayloadOut == JSONparse(slice6(enqueued[1])).fields

RECURSIVE Others(_)
Others(fields) ==
    IF fields = <<>> THEN <<>>
    ELSE (IF Head(fields) \in DeltaAtoms \cup TextAtoms THEN <<>> ELSE <<Head(fields)>>)
         \o Others(Tail(fields))

\* delta.content is absent and choices[0] has a text key
TextToMove(fields) ==
    /\ ~HasAtom(fields, {DeltaA, DeltaHi, DeltaBlank})
    /\ HasAtom(fields, TextAtoms)

\* C12 (as claimed): in the event emitted for a payload, choices[0].delta exists;
\* when delta.content was absent and choices[0] had a text key of any value,
\* the empty string included, delta.content is that value and the text key is
\* gone; every other field is unchanged.
C12_TextMovedWhenPresent ==
    (enqueued # <<>> /\ enqueued[1] # DoneEvent) =>
        /\ HasAtom(PayloadOut, DeltaAtoms)
        /\ Others(PayloadOut) = Others(PayloadIn)
        /\ TextToMove(PayloadIn) =>
               /\ ~HasAtom(PayloadOut, TextAtoms)
               /\ \E i \in 1..Len(PayloadIn) :
                      /\ PayloadIn[i] \in TextAtoms
                      /\ HasAtom(PayloadOut, {ContentOf(PayloadIn[i])})
        /\ ~TextToMove(PayloadIn) => PayloadOut = EnsureDelta(PayloadIn)

\* ------------------------------------------------- token properties, later
\* task t leaves getValidToken with a token in this step
Returns(t) == task[t].pc # "returned" /\ task'[t].pc = "returned"

\* the record whose token task t returned: the cached one, or the new one
ReturnedRecord(rec) ==
    IF rec.newTokenInfo = <<>> THEN rec.tokenInfo[1] ELSE rec.newTokenInfo[1]

\* C13 (as claimed): at the moment getValidToken returns a token, the record the
\* token belongs to satisfies now < expiresAt - 300000, whatever lifetime the
\* identity provider reported.
C13_ReturnedTokenValid ==
    [][\A t \in Tasks :
          Returns(t) => now' < ReturnedRecord(task'[t]).expiresAt - 300000]_vars

\* C13 (amended): a token returned from the cached record belongs to a record
\* with now < expiresAt - 300000 at the moment of return; a token of a record
\* just obtained from the identity provider is stored and returned without
\* that test, whatever its expiresAt.
C13_CachedTokenValid ==
    [][\A t \in Tasks :
          Returns(t) =>
              IF task'[t].newTokenInfo = <<>>
              THEN /\ now' < task'[t].tokenInfo[1].expiresAt - 300000
                   /\ task'[t].result = <<task'[t].tokenInfo[1].token>>
                   /\ KV' = KV
              ELSE /\ task'[t].result = <<task'[t].newTokenInfo[1].token>>
                   /\ KV'[task[t].apiKey] = stringify(task'[t].newTokenInfo[1])]_vars

\* C13 witness: a cached token has just been returned, some time after the
\* record was written, and the record is still outside the renewal margin.
C13_Witness ==
    /\ task["t1"].pc = "returned"
    /\ task["t1"].newTokenInfo = <<>>
    /\ task["t1"].at = now
    /\ now > 0
    /\ now < task["t1"].tokenInfo[1].expiresAt - 300000

\* C14: when a call that registered a record has returned and the next call
\* for the same secret makes its renewal test before expiresAt - 300000 of that
\* record, with no other writer in between, the second call makes no identity
\* provider call and no store write and returns the token the first returned.
C14_SecondCallIdempotent ==
    LET rec == task["t1"] IN
    (/\ rec.pc \notin {"idle", "get", "try"}
     /\ rec.last # <<>>
     /\ rec.last[1].apiKey = rec.apiKey
     /\ rec.at < rec.last[1].tokenInfo.expiresAt - 300000) =>
        /\ rec.pc = "returned"
        /\ rec.log = <<Entry("get", <<>>)>>
        /\ rec.result = <<rec.last[1].tokenInfo.token>>
        /\ KV[rec.apiKey] = stringify(rec.last[1].tokenInfo)

\* C14 witness: the call after a registration has returned that registration's
\* token, for the same secret, after reading the store once.
C14_Witness ==
    /\ task["t1"].pc = "returned"
    /\ task["t1"].last # <<>>
    /\ task["t1"].last[1].apiKey = task["t1"].apiKey
    /\ task["t1"].log = <<Entry("get", <<>>)>>
    /\ task["t1"].result = <<task["t1"].last[1].tokenInfo.token>>

\* C15: on every path, one call of getValidToken reads the store at most once,
\* writes it at most once, calls the identity provider at most twice, never
\* registers twice, never refreshes twice, and never refreshes after it has
\* registered.
C15_CallBudget ==
    LET log == task["t1"].log IN
    /\ CountOp(log, "get") + CountOp(log, "get.failed") <= 1
    /\ CountOp(log, "put") + CountOp(log, "put.failed") <= 1
    /\ CountOp(log, "registerUser") + CountOp(log, "refreshToken") <= 2
    /\ CountOp(log, "registerUser") <= 1
    /\ CountOp(log, "refreshToken") <= 1
    /\ \A i, j \in 1..Len(log) :
           (log[i].op = "registerUser" /\ log[j].op = "refreshToken") => j < i

\* C15 witness: a call that used the whole budget has returned: one read, a
\* refresh call, a registration call after it, one write.
C15_Witness ==
    /\ task["t1"].pc = "returned"
    /\ CountOp(task["t1"].log, "get") = 1
    /\ CountOp(task["t1"].log, "refreshToken") = 1
    /\ CountOp(task["t1"].log, "registerUser") = 1
    /\ CountOp(task["t1"].log, "put") = 1

\* C16: an error raised inside getValidToken that is not the refresh failure (a
\* refresh answer that cannot be read, a failed registration, a failed store
\* write) ends the call: it reaches the caller as it was raised, and no
\* registration call follows it.
C16_OtherErrorsPropagate ==
    LET rec == task["t1"] IN
    \A i \in 1..Len(rec.log) :
        rec.log[i].op \in {"refreshToken.threw", "registerUser.failed", "put.failed"} =>
            /\ i = Len(rec.log)
            /\ rec.pc = "failed"
            /\ rec.error = rec.log[i].arg

\* C16 witness: the store write after a successful refresh has failed and the
\* call has ended with that error.
C16_Witness ==
    /\ task["t1"].pc = "failed"
    /\ HasOp(task["t1"].log, "refreshToken.ok")
    /\ HasOp(task["t1"].log, "put.failed")
    /\ task["t1"].error = <<StoreError>>

\* ------------------------------------------------------- race properties
\* both calls are for one secret and read the same record, which was expiring
ReadSameExpiring ==
    /\ task["t1"].apiKey = task["t2"].apiKey
    /\ task["t1"].tokenInfo # <<>>
    /\ task["t1"].tokenInfo = task["t2"].tokenInfo
    /\ \A t \in Tasks : HasOp(task[t].log, "refreshToken")

\* C17: two concurrent calls for one secret are never held back by one
\* another: a call under way can always take its next step; and a call that
\* obtained a record from the identity provider returns the token of that
\* record, which is not the token the other call obtained. (That both can read
\* the same expiring record, send the same refreshToken and both write is the
\* witness.)
C17_EachReturnsOwnToken ==
    \A t \in Tasks :
        /\ task[t].pc \notin {"idle", "returned", "failed"} => ENABLED run(t)
        /\ (task[t].pc = "returned" /\ task[t].newTokenInfo # <<>>) =>
               /\ task[t].result = <<task[t].newTokenInfo[1].token>>
               /\ \A u \in Tasks \ {t} :
                      task[u].newTokenInfo # <<>> =>
                          task[t].result # <<task[u].newTokenInfo[1].token>>

\* C17 witness: both calls read the same expiring record, both sent its
\* refreshToken to the identity provider, both wrote the store, and each has
\* returned the token of its own refresh.
C17_Witness ==
    /\ ReadSameExpiring
    /\ ArgOf(task["t1"].log, "refreshToken") = ArgOf(task["t2"].log, "refreshToken")
    /\ \A t \in Tasks :
           /\ task[t].pc = "returned"
           /\ HasOp(task[t].log, "refreshToken.ok")
           /\ HasOp(task[t].log, "put")
           /\ task[t].result = <<task[t].newTokenInfo[1].token>>
    /\ task["t1"].result # task["t2"].result

\* the stored text is one whole record of the identity provider
WholeRecord(text, pairs) ==
    \E n \in 1..pairs : text[1] = <<"id_token", n>> /\ text[2] = <<"refresh_token", n>>

\* C18: under any interleaving a record, once written for a secret, is never
\* removed, and the store changes only by a put that replaces the whole record
\* of that secret with the record one registration or refresh call returned:
\* what is stored is always the record of the most recent put, never a mixture.
C18_StoreHoldsLastPut ==
    [][\A k \in Secrets :
          /\ KV[k] # <<>> => KV'[k] # <<>>
          /\ KV'[k] # <<>> => WholeRecord(KV'[k], issued')
          /\ KV'[k] # KV[k] =>
                 \E t \in Tasks :
                     /\ task[t].apiKey = k
                     /\ task[t].newTokenInfo # <<>>
                     /\ KV'[k] = stringify(task[t].newTokenInfo[1])
                     /\ task'[t].log = Append(task[t].log, Entry("put", KV'[k]))]_vars

\* C18 witness: both calls have written the record of one secret, one after the
\* other, and the store holds the record of the later put.
C18_Witness ==
    /\ task["t1"].apiKey = task["t2"].apiKey
    /\ \A t \in Tasks : task[t].pc = "returned" /\ HasOp(task[t].log, "put")
    /\ ArgOf(task["t1"].log, "put") # ArgOf(task["t2"].log, "put")
    /\ KV[task["t1"].apiKey] = ArgOf(task["t1"].log, "put")
    /\ task["t2"].newTokenInfo[1].token[2] < task["t1"].newTokenInfo[1].token[2]

\* ------------------------------------------------------- flush properties
\* the trimmed buffer is a `data: ` line whose payload is JSON and not the
\* sentinel string
IsValidTail(buf) ==
    /\ startsWithData(trim(buf))
    /\ JSONparse(slice6(trim(buf))).kind \in {"choices", "object"}

\* C19: at end of input the Workers transcoder emits the buffered partial line
\* exactly once, trimmed and otherwise as it is, right before the terminal
\* [DONE], when it is a `data: ` line whose payload is valid JSON and not the
\* sentinel, and emits nothing for it otherwise; no event ever emitted carries
\* a payload that is not valid JSON.
C19_FlushEmitsValidTail ==
    [][/\ (stream = "readable" /\ stream' = "closed") =>
              enqueued' = enqueued
                          \o (IF IsValidTail(buffer)
                              THEN <<trim(buffer) \o <<NL, NL>>>> ELSE <<>>)
                          \o <<DoneEvent>>
       /\ \A i \in 1..Len(enqueued') :
              \/ enqueued'[i] = DoneEvent
              \/ /\ startsWithData(enqueued'[i])
                 /\ JSONparse(slice6(enqueued'[i])).kind # "SyntaxError"]_vars

\* C19 witness: the input ended with a valid event line that had no newline and
\* some whitespace before it; the closed output ends with that line, trimmed,
\* and the terminal [DONE].
C19_Witness ==
    /\ stream = "closed"
    /\ IsValidTail(buffer)
    /\ trim(buffer) # buffer
    /\ Len(enqueued) >= 2
    /\ enqueued[Len(enqueued) - 1] = trim(buffer) \o <<NL, NL>>
    /\ enqueued[Len(enqueued)] = DoneEvent

\* ------------------------------------------------------ handler properties
\* C20 (as claimed): in the Workers handler every request with a well-formed
\* Bearer authorization header whose normalized path is neither /api/models
\* nor /api/chat/completions is answered 404 with code "route_not_found",
\* whatever the store holds and whatever the identity provider answers.
C20_UnknownPathIs404 ==
    \A t \in Tasks :
        (/\ request[t] # <<>>
         /\ response[t] # <<>>
         /\ startsWithBearer(request[t][1].authorization)
         /\ request[t][1].path \notin
                {<<"/api", "/models">>, <<"/api", "/chat/completions">>}) =>
            /\ response[t][1].status = 404
            /\ response[t][1].code = "route_not_found"

\* ------------------------------------------------------- frame properties
\* C21: when a call of getValidToken that read the store ends in failure, it has
\* written nothing: the entry of its secret is exactly what the call read (there
\* is no other writer); and no step of any call changes the entry of a secret
\* other than the call's own.
C21_FailureLeavesStore ==
    [][\A t \in Tasks :
          /\ (task'[t].pc = "failed" /\ HasOp(task'[t].log, "get")) =>
                 /\ ~HasOp(task'[t].log, "put")
                 /\ getJson(KV'[task'[t].apiKey]) = task'[t].tokenInfo
          /\ \A k \in Secrets :
                 (task[t].pc \notin {"idle", "returned", "failed"} /\ KV'[k] # KV[k]) =>
                     k = task[t].apiKey]_vars

\* C21 witness: a call that read an expiring record has failed, after a failed
\* refresh and a failed fallback registration; the store still holds the
\* record it read, and the other secret has a record of its own.
C21_Witness ==
    /\ task["t1"].pc = "failed"
    /\ task["t1"].tokenInfo # <<>>
    /\ HasOp(task["t1"].log, "refreshToken.failed")
    /\ HasOp(task["t1"].log, "registerUser.failed")
    /\ KV[task["t1"].apiKey] = stringify(task["t1"].tokenInfo[1])
    /\ \A k \in Secrets : KV[k] # <<>>

====
